---------------------------- MODULE Spec2Model ----------------------------
(***************************************************************************)
(* A model of the semantic memory server of index.js: the memories table,  *)
(* the single-row user_bio table, and the eight tool handlers of the       *)
(* CallToolRequestSchema request handler.                                  *)
(*                                                                         *)
(* JavaScript values are tagged records, so that undefined (an omitted     *)
(* argument), null, the string "null" and the empty string stay distinct.  *)
(* A column of a table holds SqlNull or a TEXT value.  Timestamps are the  *)
(* readings of a millisecond clock; similarity scores are fixed-point      *)
(* numbers with Scale units to 1.                                          *)
(***************************************************************************)
EXTENDS Integers, Sequences, FiniteSets, TLC

VARIABLES
    memories,   \* the memories table: its rows, in rowid order
    user_bio,   \* the user_bio table: NoRow, or its single row (id = 1)
    clock,      \* the reading new Date() gives
    inflight,   \* per request slot: Idle, or the handler suspended at an await
    resp,       \* the last tool call answered: its name, arguments and response
    process     \* the server process: its embedder, transport and database handle

vars == <<memories, user_bio, clock, inflight, resp, process>>

----------------------------------------------------------------------------
(* Bounds of the model. *)

MaxClock == 1
MaxInFlight == 1
MaxSupplied == 1

----------------------------------------------------------------------------
(* JavaScript values. *)

Undefined == [t |-> "undefined"]
Null == [t |-> "null"]
Str(s) == [t |-> "string", s |-> s]
Num(n) == [t |-> "number", n |-> n]
Arr(a) == [t |-> "array", a |-> a]
Obj(o) == [t |-> "object", o |-> o]

\* ToBoolean, as || and ?: apply it.
Truthy(v) ==
    CASE v.t = "undefined" -> FALSE
      [] v.t = "null" -> FALSE
      [] v.t = "string" -> v.s # ""
      [] v.t = "number" -> v.n # 0
      [] OTHER -> TRUE

\* a || b
OrElse(a, b) == IF Truthy(a) THEN a ELSE b

Quote(s) == "\"" \o s \o "\""

RECURSIVE JoinComma(_)
JoinComma(parts) ==
    IF Len(parts) = 0 THEN ""
    ELSE IF Len(parts) = 1 THEN parts[1]
    ELSE parts[1] \o "," \o JoinComma(Tail(parts))

\* JSON.stringify(v): a string, or undefined for undefined.
RECURSIVE JSON_stringify(_)
JSON_stringify(v) ==
    CASE v.t = "undefined" -> Undefined
      [] v.t = "null" -> Str("null")
      [] v.t = "string" -> Str(Quote(v.s))
      [] v.t = "number" -> Str(ToString(v.n))
      [] v.t = "array" ->
            Str("[" \o JoinComma([i \in 1..Len(v.a) |-> JSON_stringify(v.a[i]).s]) \o "]")
      [] v.t = "object" ->
            Str("{" \o JoinComma([i \in 1..Len(v.o) |->
                        Quote(v.o[i][1]) \o ":" \o JSON_stringify(v.o[i][2]).s]) \o "}")

----------------------------------------------------------------------------
(* The inputs the model draws from. *)

Ids == {"x", "y"}
Texts == {"a", "b"}
Queries == {"q"}
SearchIds == {"x", "y", "z"}
SearchTexts == {"a", "b", "c"}
SearchQueries == {"q"}
NoMetadata == Obj(<<>>)
SomeMetadata == Obj(<< <<"tag", Str("t")>> >>)
MetadataArgs == {Undefined, NoMetadata, SomeMetadata}
NResultsArgs == {Undefined, Num(-1), Num(0), Num(1), Num(2)}
ThresholdArgs == {Undefined, Num(0), Num(80), Num(100)}

\* The embedding provider (the feature-extraction pipeline): a fixed vector per
\* text.  Every vector has integer norm 5, so that Math.sqrt is exact.
generateEmbedding(text) ==
    CASE text = "a" -> <<3, 4>>
      [] text = "b" -> <<4, 3>>
      [] text = "q" -> <<5, 0>>
      [] OTHER -> <<0, 5>>

NumArr(vec) == Arr([i \in 1..Len(vec) |-> Num(vec[i])])

\* The JSON texts the model stores are the images of these values.
JsonValues ==
    {Null, NoMetadata, SomeMetadata, Str(""), Str("A"), Str("B"), Str("null"),
     Arr(<<>>), Arr(<<Str("a")>>), Arr(<<Str("a"), Str("b")>>)}
    \cup {NumArr(generateEmbedding(t)) : t \in SearchTexts \cup SearchQueries}

\* JSON.parse(s), s a string: the value whose JSON text s is.
JSON_parse(s) == CHOOSE v \in JsonValues : JSON_stringify(v) = s

----------------------------------------------------------------------------
(* The similarity engine. *)

RECURSIVE SumSeq(_)
SumSeq(s) == IF Len(s) = 0 THEN 0 ELSE Head(s) + SumSeq(Tail(s))

\* Math.sqrt, exact on the squares the model meets.
Sqrt(n) == CHOOSE r \in 0..n : r * r = n

\* dotProduct / (magA * magB), in hundredths.
cosineSimilarity(a, b) ==
    LET dotProduct == SumSeq([i \in 1..Len(a) |-> a[i] * b[i]])
        magA == Sqrt(SumSeq([i \in 1..Len(a) |-> a[i] * a[i]]))
        magB == Sqrt(SumSeq([i \in 1..Len(b) |-> b[i] * b[i]]))
    IN  (dotProduct * 100) \div (magA * magB)

\* The comparator with its operands exchanged: an ascending sort.
CompareSimilarity_Ascending(a, b) == a.similarity - b.similarity

\* The comparator of the search: (a, b) => b.similarity - a.similarity.
CompareSimilarity(a, b) == b.similarity - a.similarity

\* Array.prototype.sort with that comparator: a stable sort.
RECURSIVE InsertSorted(_, _)
InsertSorted(x, s) ==
    IF Len(s) = 0 THEN <<x>>
    ELSE IF CompareSimilarity(Head(s), x) <= 0
         THEN <<Head(s)>> \o InsertSorted(x, Tail(s))
         ELSE <<x>> \o s

RECURSIVE SortBySimilarity(_)
SortBySimilarity(s) ==
    IF Len(s) = 0 THEN <<>>
    ELSE InsertSorted(s[Len(s)], SortBySimilarity(SubSeq(s, 1, Len(s) - 1)))

\* Array.prototype.slice(0, end).
Slice0(s, end) ==
    LET len == Len(s)
        final == IF end < 0
                 THEN (IF len + end > 0 THEN len + end ELSE 0)
                 ELSE (IF end < len THEN end ELSE len)
    IN  SubSeq(s, 1, final)

----------------------------------------------------------------------------
(* The memories table and its statements. *)

Slots == 1..MaxInFlight
Idle == [tool |-> "idle"]
NoResp == [tool |-> "none", isError |-> FALSE, body |-> [success |-> FALSE]]
NoRow == Undefined

DefaultNResults == 5
DefaultThreshold == 30
PreviewLength == 100

\* A destructuring default: value = fallback applies to undefined alone.
Default(value, fallback) == IF value = Undefined THEN fallback ELSE value

\* SELECT ... FROM memories WHERE id = ?  (.get(): the row, or undefined)
SelectMemory(rows, id) ==
    IF \E k \in 1..Len(rows) : rows[k].id = id
    THEN rows[CHOOSE k \in 1..Len(rows) : rows[k].id = id]
    ELSE NoRow

\* A save that replaces the row, so that created_at restarts.
UpdateMemory_Replacing(rows, id, text, embeddingStr, metadataStr, now) ==
    [k \in 1..Len(rows) |->
        IF rows[k].id = id
        THEN [id |-> id, text |-> text, embedding |-> embeddingStr,
              metadata |-> metadataStr, created_at |-> now, updated_at |-> now]
        ELSE rows[k]]

\* UPDATE memories SET text, embedding, metadata, updated_at WHERE id = ?
UpdateMemory(rows, id, text, embeddingStr, metadataStr, now) ==
    [k \in 1..Len(rows) |->
        IF rows[k].id = id
        THEN [rows[k] EXCEPT !.text = text, !.embedding = embeddingStr,
                             !.metadata = metadataStr, !.updated_at = now]
        ELSE rows[k]]

\* An insert that dates the creation from the earliest row of the table.
InsertMemory_StaleCreatedAt(rows, id, text, embeddingStr, metadataStr, now) ==
    Append(rows, [id |-> id, text |-> text, embedding |-> embeddingStr,
                  metadata |-> metadataStr, created_at |-> 0, updated_at |-> now])

\* INSERT INTO memories (id, text, embedding, metadata, created_at, updated_at)
InsertMemory(rows, id, text, embeddingStr, metadataStr, now) ==
    Append(rows, [id |-> id, text |-> text, embedding |-> embeddingStr,
                  metadata |-> metadataStr, created_at |-> now, updated_at |-> now])

\* A DELETE without its WHERE clause.
DeleteMemory_All(rows, id) == SelectSeq(rows, LAMBDA r : FALSE)

\* DELETE FROM memories WHERE id = ?
DeleteMemory(rows, id) == SelectSeq(rows, LAMBDA r : r.id # id)

\* result.changes of that DELETE.
DeleteChanges(rows, id) == Len(rows) - Len(DeleteMemory(rows, id))

\* A reader that gives every memory the empty metadata.
ParseMetadata_Dropped(metadata) == JSON_parse(Str("{}"))

\* JSON.parse(memory.metadata || "{}")
ParseMetadata(metadata) == JSON_parse(OrElse(metadata, Str("{}")))

\* The memory object get_memory returns.
MemoryView(memory) ==
    [id |-> memory.id, text |-> memory.text,
     metadata |-> ParseMetadata(memory.metadata),
     created_at |-> memory.created_at, updated_at |-> memory.updated_at]

\* JSON.parse(memory.embedding): the stored vector.
ParseEmbedding(embedding) ==
    LET parsed == JSON_parse(embedding).a
    IN  [i \in 1..Len(parsed) |-> parsed[i].n]

\* One element of the search's map(): the row with its similarity to the query.
Scored(memory, queryEmbedding) ==
    [id |-> memory.id, text |-> memory.text,
     metadata |-> ParseMetadata(memory.metadata),
     similarity |-> cosineSimilarity(queryEmbedding, ParseEmbedding(memory.embedding)),
     created_at |-> memory.created_at, updated_at |-> memory.updated_at]

\* A filter that drops the rows whose score equals the threshold.
FilterByThreshold_Strict(results, threshold) ==
    SelectSeq(results, LAMBDA r : r.similarity > threshold)

\* A filter that keeps the rows at or below the threshold.
FilterByThreshold_Below(results, threshold) ==
    SelectSeq(results, LAMBDA r : r.similarity <= threshold)

\* filter(result => result.similarity >= threshold)
FilterByThreshold(results, threshold) ==
    SelectSeq(results, LAMBDA r : r.similarity >= threshold)

\* allMemories.map(...).filter(...).sort(...).slice(0, n_results)
SearchResults(allMemories, queryEmbedding, n_results, threshold) ==
    Slice0(SortBySimilarity(FilterByThreshold(
               [k \in 1..Len(allMemories) |-> Scored(allMemories[k], queryEmbedding)],
               threshold)),
           n_results)

\* What a tool call returns: the JSON object of its content text.
Response(tool, body) == [tool |-> tool, isError |-> FALSE, body |-> body]

\* The handler's catch: any fault becomes an isError response.
ErrorResponse(tool, message) ==
    [tool |-> tool, isError |-> TRUE, body |-> [success |-> FALSE, error |-> message]]

----------------------------------------------------------------------------
(* The memory tools. *)

\* save_memory, up to its await of generateEmbedding(text).  The suspended
\* handler keeps its arguments; their defaults are applied where they are read.
save_memory(s, id, text, metadata) ==
    /\ inflight[s] = Idle
    /\ inflight' = [inflight EXCEPT ![s] =
            [tool |-> "save_memory", id |-> id, text |-> text,
             metadata |-> metadata]]
    /\ UNCHANGED <<process, memories, user_bio, clock, resp>>

\* A save that inserts without looking for the row.
save_memory_embedded_AlwaysInsert(s) ==
    /\ inflight[s].tool = "save_memory"
    /\ LET r == inflight[s]
       IN  /\ memories' = InsertMemory(memories, r.id, r.text,
                              JSON_stringify(NumArr(generateEmbedding(r.text))),
                              JSON_stringify(Default(r.metadata, Obj(<<>>))), clock)
           /\ resp' = Response("save_memory",
                         [success |-> TRUE,
                          message |-> "Memory saved with ID: " \o r.id,
                          id |-> r.id])
    /\ inflight' = [inflight EXCEPT ![s] = Idle]
    /\ UNCHANGED <<process, user_bio, clock>>

\* save_memory, from the embedding to its return: one synchronous run.
save_memory_embedded(s) ==
    /\ inflight[s].tool = "save_memory"
    /\ LET r == inflight[s]
           embedding == generateEmbedding(r.text)
           embeddingStr == JSON_stringify(NumArr(embedding))
           metadata == Default(r.metadata, Obj(<<>>))
           metadataStr == JSON_stringify(metadata)
           existing == SelectMemory(memories, r.id)
           now == clock
       IN  IF existing # NoRow
           THEN /\ memories' = UpdateMemory(memories, r.id, r.text,
                                            embeddingStr, metadataStr, now)
                /\ resp' = Response("save_memory",
                              [success |-> TRUE,
                               message |-> "Memory updated with ID: " \o r.id,
                               id |-> r.id])
           ELSE /\ memories' = InsertMemory(memories, r.id, r.text,
                                            embeddingStr, metadataStr, now)
                /\ resp' = Response("save_memory",
                              [success |-> TRUE,
                               message |-> "Memory saved with ID: " \o r.id,
                               id |-> r.id])
    /\ inflight' = [inflight EXCEPT ![s] = Idle]
    /\ UNCHANGED <<process, user_bio, clock>>

\* A search that embeds its query whether or not there are rows.
search_memory_NoEmptyCheck(query, n_results, threshold) ==
    /\ \E s \in DOMAIN inflight :
          /\ inflight[s] = Idle
          /\ inflight' = [inflight EXCEPT ![s] =
                [tool |-> "search_memory", query |-> query,
                 n_results |-> n_results, threshold |-> threshold,
                 allMemories |-> memories]]
    /\ UNCHANGED <<process, memories, user_bio, clock, resp>>

\* search_memory, up to its return on an empty table or its await of
\* generateEmbedding(query).
search_memory(query, n_results, threshold) ==
    LET allMemories == memories
    IN  IF Len(allMemories) = 0
        THEN /\ resp' = Response("search_memory",
                           [success |-> TRUE, query |-> query, results |-> <<>>,
                            message |-> "No memories stored yet"])
             /\ UNCHANGED <<process, memories, user_bio, clock, inflight>>
        ELSE /\ \E s \in DOMAIN inflight :
                  /\ inflight[s] = Idle
                  /\ inflight' = [inflight EXCEPT ![s] =
                        [tool |-> "search_memory", query |-> query,
                         n_results |-> n_results, threshold |-> threshold,
                         allMemories |-> allMemories]]
             /\ UNCHANGED <<process, memories, user_bio, clock, resp>>

\* search_memory, from the query's embedding to its return.
search_memory_embedded(s) ==
    /\ inflight[s].tool = "search_memory"
    /\ LET r == inflight[s]
           n_results == Default(r.n_results, Num(DefaultNResults))
           threshold == Default(r.threshold, Num(DefaultThreshold))
           queryEmbedding == generateEmbedding(r.query)
           results == SearchResults(r.allMemories, queryEmbedding,
                                    n_results.n, threshold.n)
       IN  resp' = Response("search_memory",
                      [success |-> TRUE, query |-> r.query, results |-> results])
    /\ inflight' = [inflight EXCEPT ![s] = Idle]
    /\ UNCHANGED <<process, memories, user_bio, clock>>

\* A handler that answers the failure and keeps the request for another try.
embedding_rejected_Retried(s) ==
    /\ inflight[s].tool \in {"save_memory", "search_memory"}
    /\ resp' = ErrorResponse(inflight[s].tool, "embedding failed")
    /\ UNCHANGED <<process, memories, user_bio, clock, inflight>>

\* generateEmbedding rejects: the handler's catch answers.
embedding_rejected(s) ==
    /\ inflight[s].tool \in {"save_memory", "search_memory"}
    /\ resp' = ErrorResponse(inflight[s].tool, "embedding failed")
    /\ inflight' = [inflight EXCEPT ![s] = Idle]
    /\ UNCHANGED <<process, memories, user_bio, clock>>

\* A statement of the storage engine throws in a handler that has not awaited:
\* the handler's catch answers and the tables are as they were.
storage_failed(tool) ==
    /\ resp' = ErrorResponse(tool, "disk I/O error")
    /\ UNCHANGED <<process, memories, user_bio, clock, inflight>>

\* A statement of save_memory throws after the embedding has arrived.
storage_failed_embedded(s) ==
    /\ inflight[s].tool = "save_memory"
    /\ resp' = ErrorResponse("save_memory", "disk I/O error")
    /\ inflight' = [inflight EXCEPT ![s] = Idle]
    /\ UNCHANGED <<process, memories, user_bio, clock>>

\* A handler whose fault leaves it without the response object of the catch.
unknown_tool_Uncaught(name) ==
    /\ resp' = [tool |-> name, isError |-> TRUE,
                body |-> [error |-> "Unknown tool: " \o name]]
    /\ UNCHANGED <<process, memories, user_bio, clock, inflight>>

\* default: throw new Error(`Unknown tool: ${name}`), caught by the handler.
unknown_tool(name) ==
    /\ resp' = ErrorResponse(name, "Unknown tool: " \o name)
    /\ UNCHANGED <<process, memories, user_bio, clock, inflight>>

\* What get_memory answers on the table rows.
GetMemoryResponse(rows, id) ==
    LET memory == SelectMemory(rows, id)
    IN  IF memory = NoRow
        THEN Response("get_memory",
                 [success |-> FALSE,
                  message |-> "Memory with ID " \o id \o " not found"])
        ELSE Response("get_memory",
                 [success |-> TRUE, memory |-> MemoryView(memory)])

get_memory(id) ==
    /\ resp' = GetMemoryResponse(memories, id)
    /\ UNCHANGED <<process, memories, user_bio, clock, inflight>>

delete_memory(id) ==
    /\ memories' = DeleteMemory(memories, id)
    /\ IF DeleteChanges(memories, id) = 0
       THEN resp' = Response("delete_memory",
                       [success |-> FALSE,
                        message |-> "Memory with ID " \o id \o " not found"])
       ELSE resp' = Response("delete_memory",
                       [success |-> TRUE,
                        message |-> "Memory with ID " \o id \o " deleted"])
    /\ UNCHANGED <<process, user_bio, clock, inflight>>

\* text.substring(0, 100) + (text.length > 100 ? "..." : "")
Preview(text) ==
    IF Len(text) > PreviewLength THEN SubSeq(text, 1, PreviewLength) \o "..." ELSE text

\* The orders of ORDER BY updated_at ASC.
OrderedByUpdatedAt_Ascending(rows) ==
    {[k \in 1..Len(rows) |-> rows[p[k]]] :
        p \in {q \in [1..Len(rows) -> 1..Len(rows)] :
                 /\ \A i, j \in 1..Len(rows) : i # j => q[i] # q[j]
                 /\ \A i, j \in 1..Len(rows) :
                        i < j => rows[q[i]].updated_at <= rows[q[j]].updated_at}}

\* The orders SELECT * FROM memories ORDER BY updated_at DESC may give: rows
\* with equal updated_at come in an order SQL leaves open.
OrderedByUpdatedAt(rows) ==
    {[k \in 1..Len(rows) |-> rows[p[k]]] :
        p \in {q \in [1..Len(rows) -> 1..Len(rows)] :
                 /\ \A i, j \in 1..Len(rows) : i # j => q[i] # q[j]
                 /\ \A i, j \in 1..Len(rows) :
                        i < j => rows[q[i]].updated_at >= rows[q[j]].updated_at}}

list_all_memories ==
    /\ \E ordered \in OrderedByUpdatedAt(memories) :
          resp' = Response("list_all_memories",
                     [success |-> TRUE, count |-> Len(ordered),
                      memories |-> [k \in 1..Len(ordered) |->
                          [id |-> ordered[k].id,
                           metadata |-> ParseMetadata(ordered[k].metadata),
                           preview |-> Preview(ordered[k].text),
                           created_at |-> ordered[k].created_at,
                           updated_at |-> ordered[k].updated_at]]])
    /\ UNCHANGED <<process, memories, user_bio, clock, inflight>>

----------------------------------------------------------------------------
(* The user_bio table and the biography tools. *)

ScalarFields == {"nombre", "ocupacion", "ubicacion", "timezone"}
ListFields == {"tecnologias", "herramientas", "idiomas", "mascotas"}
BioFields == ScalarFields \cup ListFields

\* What better-sqlite3 binds to a ? parameter; anything else is a TypeError.
Bindable(v) == v.t \in {"null", "string", "number"}

\* existing?.field
FieldOf(existing, field) == IF existing = NoRow THEN Undefined ELSE existing[field]

\* A helper that takes every falsy value, the empty string too, as a clear.
processValue_EmptyClears(value, existingValue) ==
    IF value = Undefined THEN OrElse(existingValue, Null)
    ELSE IF ~Truthy(value) \/ value = Str("null") THEN Null
    ELSE IF value.t = "array" THEN JSON_stringify(value)
    ELSE value

\* The helper processValue of set_user_bio, used for the four scalar fields.
processValue(value, existingValue) ==
    IF value = Null \/ value = Str("null") THEN Null
    ELSE IF value = Undefined THEN OrElse(existingValue, Null)
    ELSE IF value.t = "array" THEN JSON_stringify(value)
    ELSE value

\* The conditional set_user_bio writes out for each of the four list fields.
processList(value, existingValue) ==
    IF value = Null \/ value = Str("null") THEN Null
    ELSE IF value # Undefined THEN JSON_stringify(value)
    ELSE OrElse(existingValue, Null)

\* The eight values set_user_bio binds, by column.
PreparedFields(bioFields, existing) ==
    [f \in BioFields |->
        IF f \in ScalarFields
        THEN processValue(bioFields[f], FieldOf(existing, f))
        ELSE processList(bioFields[f], FieldOf(existing, f))]

\* The bio object get_user_bio returns.
BioData(bio) ==
    [f \in BioFields \cup {"created_at", "updated_at"} |->
        IF f \in ListFields
        THEN (IF Truthy(bio[f]) THEN JSON_parse(bio[f]) ELSE Null)
        ELSE bio[f]]

\* An answer that takes a record of eight null fields for no record.
GetUserBioResponse_EmptyIsNone(bio) ==
    IF bio = NoRow \/ (bio # NoRow /\ \A f \in BioFields : bio[f] = Null)
    THEN Response("get_user_bio",
             [success |-> TRUE, bio |-> Null,
              message |-> "No user biography set yet"])
    ELSE Response("get_user_bio", [success |-> TRUE, bio |-> BioData(bio)])

\* What get_user_bio answers on the table's row.
GetUserBioResponse(bio) ==
    IF bio = NoRow
    THEN Response("get_user_bio",
             [success |-> TRUE, bio |-> Null,
              message |-> "No user biography set yet"])
    ELSE Response("get_user_bio", [success |-> TRUE, bio |-> BioData(bio)])

get_user_bio ==
    /\ resp' = GetUserBioResponse(user_bio)
    /\ UNCHANGED <<process, memories, user_bio, clock, inflight>>

set_user_bio(bioFields) ==
    LET now == clock
        existing == user_bio
        prepared == PreparedFields(bioFields, existing)
    IN  IF \E f \in BioFields : ~Bindable(prepared[f])
        THEN /\ resp' = ErrorResponse("set_user_bio", "SQLite3 can only bind numbers, strings, bigints, buffers, and null")
             /\ UNCHANGED <<process, memories, user_bio, clock, inflight>>
        ELSE /\ IF existing # NoRow
                THEN /\ user_bio' = [f \in DOMAIN existing |->
                                        IF f \in BioFields THEN prepared[f]
                                        ELSE IF f = "updated_at" THEN now
                                        ELSE existing[f]]
                     /\ resp' = Response("set_user_bio",
                                   [success |-> TRUE,
                                    message |-> "User biography updated"])
                ELSE /\ user_bio' = [f \in BioFields \cup {"created_at", "updated_at"} |->
                                        IF f \in BioFields THEN prepared[f] ELSE now]
                     /\ resp' = Response("set_user_bio",
                                   [success |-> TRUE,
                                    message |-> "User biography created"])
             /\ UNCHANGED <<process, memories, clock, inflight>>

\* The columns of user_bio.  The model's row leaves out id, which is always 1.
TimestampColumns == {"created_at", "updated_at"}
BioColumns == BioFields \cup TimestampColumns \cup {"id"}

\* What a column holds once a bound value is written to it.  The timestamp
\* columns hold the text of toISOString(), which the model keeps as the clock's
\* reading; any other text written there is kept as a reading before every
\* reading of the clock.
ColumnValue(column, v) ==
    IF column \in TimestampColumns THEN (IF v.t = "number" THEN v.n ELSE 0 - 1)
    ELSE IF v.t = "number" THEN Str(ToString(v.n))
    ELSE v

\* The faults of the statement on a table without CHECK (id = 1).
UpdateFault_NoCheck(field, processedValue) ==
    IF field \notin BioColumns THEN "no such column: " \o field
    ELSE IF ~Bindable(processedValue)
         THEN "SQLite3 can only bind numbers, strings, bigints, buffers, and null"
    ELSE IF field = "created_at" /\ processedValue = Null
         THEN "NOT NULL constraint failed: user_bio.created_at"
    ELSE ""

\* The fault of  UPDATE user_bio SET ${field} = ?, updated_at = ? WHERE id = 1
\* with the value bound, "" when the statement runs: prepare() rejects a name
\* that is no column, run() a value it cannot bind, SQLite a NULL in a NOT NULL
\* column and an id other than 1.  Of two assignments to updated_at the
\* rightmost alone takes effect.
UpdateFault(field, processedValue) ==
    IF field \notin BioColumns THEN "no such column: " \o field
    ELSE IF ~Bindable(processedValue)
         THEN "SQLite3 can only bind numbers, strings, bigints, buffers, and null"
    ELSE IF field = "created_at" /\ processedValue = Null
         THEN "NOT NULL constraint failed: user_bio.created_at"
    ELSE IF field = "id" /\ processedValue # Num(1)
         THEN "CHECK constraint failed: id = 1"
    ELSE ""

\* A patch that creates the record when there is none.
update_user_bio_Upsert(field, value) ==
    /\ user_bio' = [f \in BioFields \cup {"created_at", "updated_at"} |->
                        IF f = field THEN value
                        ELSE IF f \in BioFields THEN Null ELSE clock]
    /\ resp' = Response("update_user_bio",
                  [success |-> user_bio # NoRow,
                   message |-> "Updated field: " \o field])
    /\ UNCHANGED <<process, memories, clock, inflight>>

\* A patch that rewrites the row's timestamps together.
update_user_bio_ResetsCreatedAt(field, value) ==
    IF user_bio = NoRow
    THEN /\ resp' = Response("update_user_bio",
                       [success |-> FALSE,
                        message |-> "No user biography exists. Use set_user_bio to create one first."])
         /\ UNCHANGED <<process, memories, user_bio, clock, inflight>>
    ELSE /\ user_bio' = [f \in DOMAIN user_bio |->
                            IF f \in TimestampColumns THEN clock
                            ELSE IF f = field
                                 THEN (IF field \in ListFields
                                       THEN JSON_stringify(value) ELSE value)
                                 ELSE user_bio[f]]
         /\ resp' = Response("update_user_bio",
                       [success |-> TRUE, message |-> "Updated field: " \o field])
         /\ UNCHANGED <<process, memories, clock, inflight>>

update_user_bio(field, value) ==
    LET existing == user_bio
    IN  IF existing = NoRow
        THEN /\ resp' = Response("update_user_bio",
                           [success |-> FALSE,
                            message |-> "No user biography exists. Use set_user_bio to create one first."])
             /\ UNCHANGED <<process, memories, user_bio, clock, inflight>>
        ELSE LET now == clock
                 processedValue == IF field \in ListFields
                                   THEN JSON_stringify(value) ELSE value
                 fault == UpdateFault(field, processedValue)
             IN  IF fault # ""
                 THEN /\ resp' = ErrorResponse("update_user_bio", fault)
                      /\ UNCHANGED <<process, memories, user_bio, clock, inflight>>
                 ELSE /\ user_bio' = [f \in DOMAIN existing |->
                                         IF f = "updated_at" THEN now
                                         ELSE IF f = field
                                              THEN ColumnValue(f, processedValue)
                                              ELSE existing[f]]
                      /\ resp' = Response("update_user_bio",
                                    [success |-> TRUE,
                                     message |-> "Updated field: " \o field])
                      /\ UNCHANGED <<process, memories, clock, inflight>>

\* Time passes: the next new Date() reads a later millisecond.
Tick ==
    /\ clock < MaxClock
    /\ clock' = clock + 1
    /\ UNCHANGED <<process, memories, user_bio, inflight, resp>>

----------------------------------------------------------------------------

\* The process as main() starts it: the database is open, the embedder is not
\* loaded yet and no transport is connected.
Starting ==
    [embedder |-> "unset", transport |-> "none", db |-> "open", exited |-> FALSE]

\* The process once main() has run through: requests arrive.
Running ==
    [embedder |-> "loaded", transport |-> "connected", db |-> "open", exited |-> FALSE]

\* The transport delivers requests to the handler, and the handlers run.
Serving == process.transport = "connected" /\ ~process.exited

\* await initializeEmbedder() resolves: the pipeline is loaded.
initializeEmbedder_resolved ==
    /\ process.embedder = "unset" /\ ~process.exited
    /\ process' = [process EXCEPT !.embedder = "loaded"]
    /\ UNCHANGED <<memories, user_bio, clock, inflight, resp>>

\* await initializeEmbedder() rejects: main().catch closes the database and
\* exits.
initializeEmbedder_rejected ==
    /\ process.embedder = "unset" /\ ~process.exited
    /\ process' = [process EXCEPT !.db = "closed", !.exited = TRUE]
    /\ UNCHANGED <<memories, user_bio, clock, inflight, resp>>

\* A main() that connects the transport without waiting for the embedder.
connect_BeforeLoading ==
    /\ process.transport = "none" /\ ~process.exited
    /\ process' = [process EXCEPT !.transport = "connected"]
    /\ UNCHANGED <<memories, user_bio, clock, inflight, resp>>

\* await server.connect(transport), which main() reaches after the embedder.
connect ==
    /\ process.embedder = "loaded"
    /\ process.transport = "none" /\ ~process.exited
    /\ process' = [process EXCEPT !.transport = "connected"]
    /\ UNCHANGED <<memories, user_bio, clock, inflight, resp>>

Init ==
    /\ memories = <<>>
    /\ user_bio = NoRow
    /\ clock = 0
    /\ inflight = [s \in Slots |-> Idle]
    /\ resp = NoResp
    /\ process = Running

\* The arguments of set_user_bio: an object with at most MaxSupplied of the
\* eight fields present; an absent field reads as undefined.
ScalarArgs == {Null, Str("null"), Str(""), Str("A")}
ListArgs == {Null, Str("null"), Arr(<<>>), Arr(<<Str("a")>>)}
ArgsOf(field) == IF field \in ScalarFields THEN ScalarArgs ELSE ListArgs
UpdateArgsOf(field) == IF field \in ScalarFields THEN {Str("A")} ELSE {Arr(<<Str("a")>>)}

BioArgs ==
    UNION {{[f \in BioFields |-> IF f \in F THEN g[f] ELSE Undefined] :
                g \in {h \in [F -> ScalarArgs \cup ListArgs] :
                          \A f \in F : h[f] \in ArgsOf(f)}} :
           F \in {S \in SUBSET BioFields : Cardinality(S) <= MaxSupplied}}

\* The arguments {} of set_user_bio: no field supplied.
NoFields == [f \in BioFields |-> Undefined]

SmallBioArgs ==
    {b \in BioArgs : \A f \in BioFields :
        b[f] # Undefined => f = "nombre" /\ b[f] \in {Null, Str("A")}}

\* Every tool, on the small inputs, within one millisecond.
Next ==
    \/ \E s \in Slots, id \in Ids, text \in Texts, metadata \in MetadataArgs :
          save_memory(s, id, text, metadata)
    \/ \E s \in Slots : save_memory_embedded(s)
    \/ \E query \in Queries : search_memory(query, Undefined, Undefined)
    \/ \E s \in Slots : search_memory_embedded(s)
    \/ \E s \in Slots : embedding_rejected(s)
    \/ \E id \in Ids : get_memory(id)
    \/ \E id \in Ids : delete_memory(id)
    \/ list_all_memories
    \/ get_user_bio
    \/ \E bioFields \in SmallBioArgs : set_user_bio(bioFields)
    \/ update_user_bio("nombre", Str("B"))

Spec == Init /\ [][Next]_vars

\* The memory store over time: saving, reading and deleting as the clock runs.
NextMemory ==
    \/ \E s \in Slots, id \in Ids, text \in Texts, metadata \in MetadataArgs :
          save_memory(s, id, text, metadata)
    \/ \E s \in Slots : save_memory_embedded(s)
    \/ \E s \in Slots : embedding_rejected(s)
    \/ \E id \in Ids : get_memory(id)
    \/ \E id \in Ids : delete_memory(id)
    \/ list_all_memories
    \/ Tick

SpecMemory == Init /\ [][NextMemory]_vars

\* The search over a store of up to three memories, with every n_results and
\* threshold of the model.
NextSearch ==
    \/ \E s \in Slots, id \in SearchIds, text \in SearchTexts :
          save_memory(s, id, text, Undefined)
    \/ \E s \in Slots : save_memory_embedded(s)
    \/ \E query \in SearchQueries, n_results \in NResultsArgs,
          threshold \in ThresholdArgs :
          search_memory(query, n_results, threshold)
    \/ \E s \in Slots : search_memory_embedded(s)
    \/ \E s \in Slots : embedding_rejected(s)

SpecSearch == Init /\ [][NextSearch]_vars

\* The biography tools, on every field, within one millisecond.
NextBio ==
    \/ get_user_bio
    \/ \E bioFields \in BioArgs : set_user_bio(bioFields)
    \/ \E field \in BioFields : \E value \in UpdateArgsOf(field) :
          update_user_bio(field, value)

SpecBio == Init /\ [][NextBio]_vars

\* A tool name the switch has no case for, and the tools that run a statement
\* before any await.
UnknownTools == {"forget_memory"}
SyncTools ==
    {"search_memory", "get_memory", "delete_memory", "list_all_memories",
     "get_user_bio", "set_user_bio", "update_user_bio"}

\* The arguments of update_user_bio: field is any string, value any value.
PatchFields == {"nombre", "tecnologias", "created_at", "updated_at", "id", "apodo"}
PatchArgsOf(field) ==
    IF field = "id" THEN {Num(1), Num(2)}
    ELSE {Null, Str("A"), Arr(<<Str("a")>>)}

\* Every tool and every fault: an unknown tool name, a rejected embedding, a
\* failing statement, a value that cannot be bound, a name that is no column.
NextFaults ==
    \/ \E s \in Slots : save_memory(s, "x", "a", Undefined)
    \/ \E s \in Slots : save_memory_embedded(s)
    \/ \E query \in Queries : search_memory(query, Undefined, Undefined)
    \/ \E s \in Slots : search_memory_embedded(s)
    \/ \E s \in Slots : embedding_rejected(s)
    \/ \E s \in Slots : storage_failed_embedded(s)
    \/ \E tool \in SyncTools : storage_failed(tool)
    \/ \E name \in UnknownTools : unknown_tool(name)
    \/ \E id \in Ids : get_memory(id)
    \/ \E id \in Ids : delete_memory(id)
    \/ list_all_memories
    \/ get_user_bio
    \/ \E bioFields \in SmallBioArgs : set_user_bio(bioFields)
    \/ \E field \in PatchFields : \E value \in PatchArgsOf(field) :
          update_user_bio(field, value)

SpecFaults == Init /\ [][NextFaults]_vars

\* The biography over time, patched under any field name.
NextBioClock ==
    \/ get_user_bio
    \/ \E bioFields \in SmallBioArgs : set_user_bio(bioFields)
    \/ \E field \in PatchFields : \E value \in PatchArgsOf(field) :
          update_user_bio(field, value)
    \/ Tick

SpecBioClock == Init /\ [][NextBioClock]_vars

\* Requests in flight together: MaxConcurrent handlers may be suspended at
\* their await while others run.
MaxConcurrent == 2
ConcurrentSlots == 1..MaxConcurrent
ConcurrentMetadataArgs == {Undefined, SomeMetadata}

InitConcurrent ==
    /\ memories = <<>>
    /\ user_bio = NoRow
    /\ clock = 0
    /\ inflight = [s \in ConcurrentSlots |-> Idle]
    /\ resp = NoResp
    /\ process = Running

NextConcurrent ==
    \/ \E s \in ConcurrentSlots, text \in Texts, metadata \in ConcurrentMetadataArgs :
          save_memory(s, "x", text, metadata)
    \/ \E s \in ConcurrentSlots : save_memory_embedded(s)
    \/ \E query \in Queries : search_memory(query, Undefined, Undefined)
    \/ \E s \in ConcurrentSlots : search_memory_embedded(s)
    \/ \E s \in ConcurrentSlots : embedding_rejected(s)
    \/ delete_memory("x")
    \/ Tick

SpecConcurrent == InitConcurrent /\ [][NextConcurrent]_vars

\* The biography patched field by field over time, beside a memory store.
NextPatch ==
    \/ \E s \in Slots : save_memory(s, "x", "a", Undefined)
    \/ \E s \in Slots : save_memory_embedded(s)
    \/ set_user_bio(NoFields)
    \/ \E field \in BioFields : \E value \in UpdateArgsOf(field) :
          update_user_bio(field, value)
    \/ Tick

SpecPatch == Init /\ [][NextPatch]_vars

\* The process from its start: main() loads the embedder, connects the
\* transport, and the memory tools are called.
InitStartup ==
    /\ memories = <<>>
    /\ user_bio = NoRow
    /\ clock = 0
    /\ inflight = [s \in Slots |-> Idle]
    /\ resp = NoResp
    /\ process = Starting

NextStartup ==
    \/ initializeEmbedder_resolved
    \/ initializeEmbedder_rejected
    \/ connect
    \/ /\ Serving
       /\ \E s \in Slots, id \in Ids, text \in Texts : save_memory(s, id, text, Undefined)
    \/ /\ Serving
       /\ \E s \in Slots : save_memory_embedded(s)
    \/ /\ Serving
       /\ \E s \in Slots : embedding_rejected(s)
    \/ /\ Serving
       /\ \E id \in Ids : get_memory(id)
    \/ /\ Serving
       /\ \E id \in Ids : delete_memory(id)

SpecStartup == InitStartup /\ [][NextStartup]_vars

----------------------------------------------------------------------------
(* Properties. *)

\* The message of a response, "" when it carries none.
MessageOf(r) == IF "message" \in DOMAIN r.body THEN r.body.message ELSE ""

\* The rows of the table with the given id.
RowsWithId(rows, id) == {k \in 1..Len(rows) : rows[k].id = id}

\* A save_memory that completes on an id whose row holds another text.
ResavesWithNewText(s) ==
    /\ save_memory_embedded(s)
    /\ SelectMemory(memories, inflight[s].id) # NoRow
    /\ SelectMemory(memories, inflight[s].id).text # inflight[s].text

\* C1 as stated: saving an id again with a different text leaves exactly one
\* row for the id, with the second text, the created_at of the first save, and
\* an updated_at strictly later than the one the first save left.
C1_ResaveAdvancesUpdatedAt ==
    [][\A s \in Slots : ResavesWithNewText(s) =>
          LET id == inflight[s].id
              before == SelectMemory(memories, id)
              after == SelectMemory(memories', id)
          IN  /\ Cardinality(RowsWithId(memories', id)) = 1
              /\ after.text = inflight[s].text
              /\ after.created_at = before.created_at
              /\ after.updated_at > before.updated_at]_vars

\* C1 as amended: saving an id again with a different text leaves exactly one
\* row for the id, with the second text and the created_at of the first save;
\* its updated_at is the clock's reading at the second save, which is later
\* than the old one exactly when the clock has moved on since.
C1_ResaveKeepsCreatedAt ==
    [][\A s \in Slots : ResavesWithNewText(s) =>
          LET id == inflight[s].id
              before == SelectMemory(memories, id)
              after == SelectMemory(memories', id)
          IN  /\ Cardinality(RowsWithId(memories', id)) = 1
              /\ after.text = inflight[s].text
              /\ after.created_at = before.created_at
              /\ after.updated_at = clock
              /\ (after.updated_at > before.updated_at) <=> (clock > before.updated_at)
              /\ resp'.body.success /\ ~resp'.isError]_vars

\* A second save of x has been answered, and it moved updated_at past created_at.
C1_Witness ==
    /\ resp.tool = "save_memory"
    /\ MessageOf(resp) = "Memory updated with ID: x"
    /\ SelectMemory(memories, "x") # NoRow
    /\ SelectMemory(memories, "x").created_at < SelectMemory(memories, "x").updated_at

\* A save_memory of the id completes in this step.
SaveCompletes(id) ==
    \E s \in Slots : save_memory_embedded(s) /\ inflight[s].id = id

\* C2: a successful save_memory(id, text, metadata) makes get_memory(id) answer
\* success with that text and that metadata ({} when metadata was omitted), and
\* no step other than a later save or delete of the same id, whether on another
\* id or on the biography, changes what get_memory(id) answers.
C2_SaveGetRoundTrip ==
    [][\A id \in Ids :
          /\ \A s \in Slots :
                (save_memory_embedded(s) /\ inflight[s].id = id) =>
                    LET got == GetMemoryResponse(memories', id)
                    IN  /\ resp'.body.success /\ ~resp'.isError
                        /\ got.body.success /\ ~got.isError
                        /\ got.body.memory.id = id
                        /\ got.body.memory.text = inflight[s].text
                        /\ got.body.memory.metadata =
                              (IF inflight[s].metadata = Undefined
                               THEN Obj(<<>>) ELSE inflight[s].metadata)
          /\ (~SaveCompletes(id) /\ ~delete_memory(id)) =>
                GetMemoryResponse(memories', id) = GetMemoryResponse(memories, id)]_vars

\* get_memory has answered x with the metadata it was saved with, while y is
\* stored and the biography exists.
C2_Witness ==
    /\ resp.tool = "get_memory"
    /\ resp.body.success
    /\ resp.body.memory.id = "x"
    /\ resp.body.memory.metadata = SomeMetadata
    /\ SelectMemory(memories, "y") # NoRow
    /\ user_bio # NoRow

\* C6: delete_memory(id) answers success:true exactly when a row with the id
\* existed, and the row is then gone; otherwise it answers an ordinary
\* success:false "not found" (no isError) and the table is unchanged.  The rows
\* with other ids are unchanged either way.
C6_DeleteOutcome ==
    [][\A id \in Ids : delete_memory(id) =>
          /\ resp'.tool = "delete_memory" /\ ~resp'.isError
          /\ resp'.body.success <=> (SelectMemory(memories, id) # NoRow)
          /\ SelectMemory(memories', id) = NoRow
          /\ ~resp'.body.success =>
                /\ memories' = memories
                /\ MessageOf(resp') = "Memory with ID " \o id \o " not found"
          /\ \A other \in Ids \ {id} :
                SelectMemory(memories', other) = SelectMemory(memories, other)
          /\ Len(memories') = Len(memories) - (IF resp'.body.success THEN 1 ELSE 0)]_vars

\* delete_memory has removed x and left the row of y in place.
C6_Witness ==
    /\ resp.tool = "delete_memory"
    /\ MessageOf(resp) = "Memory with ID x deleted"
    /\ SelectMemory(memories, "x") = NoRow
    /\ SelectMemory(memories, "y") # NoRow

\* The arguments {field: null} of set_user_bio.
OnlyNull(field) == [f \in BioFields |-> IF f = field THEN Null ELSE Undefined]

\* What get_user_bio reports for a field of the row.
Reported(bio, field) == GetUserBioResponse(bio).body.bio[field]

\* C3: a set_user_bio whose argument does not contain a field leaves the field
\* as get_user_bio reported it, whatever value it holds (an empty string and an
\* empty list included); with no record yet, the field is created null.
C3_OmittedFieldsPreserved ==
    [][\A bioFields \in BioArgs : set_user_bio(bioFields) =>
          \A f \in BioFields : bioFields[f] = Undefined =>
              IF user_bio = NoRow
              THEN Reported(user_bio', f) = Null
              ELSE Reported(user_bio', f) = Reported(user_bio, f)]_vars

\* C4: on an existing record, set_user_bio({f: null}) makes get_user_bio report
\* f as null, for each of the eight fields alike; the record still exists and
\* every other field keeps its value.
C4_ExplicitNullClears ==
    [][\A f \in BioFields : (set_user_bio(OnlyNull(f)) /\ user_bio # NoRow) =>
          /\ user_bio' # NoRow
          /\ Reported(user_bio', f) = Null
          /\ \A g \in BioFields \ {f} :
                Reported(user_bio', g) = Reported(user_bio, g)]_vars

\* C5: update_user_bio while no record exists answers success:false and
\* creates nothing: get_user_bio still answers bio:null.
C5_PatchNeedsRecord ==
    [][\A field \in BioFields : \A value \in UpdateArgsOf(field) :
          (update_user_bio(field, value) /\ user_bio = NoRow) =>
              /\ resp'.tool = "update_user_bio"
              /\ ~resp'.body.success
              /\ user_bio' = NoRow
              /\ GetUserBioResponse(user_bio').body.bio = Null]_vars

\* update_user_bio has been refused, and there is still no record.
C5_Witness ==
    /\ resp.tool = "update_user_bio"
    /\ ~resp.body.success
    /\ user_bio = NoRow

\* The thresholds a search is compared under: those of the model's calls, and
\* values between and beyond the scores.
Thresholds == {-100, 0, 30, 60, 61, 80, 81, 100, 150}

\* The position of the row with the id in the table, 0 when it has none.
PositionOf(rows, id) ==
    IF RowsWithId(rows, id) = {} THEN 0 ELSE CHOOSE k \in RowsWithId(rows, id) : TRUE

\* C7: a search_memory called with n_results returns at most n_results results,
\* and so none when n_results is zero or negative.
C7_LimitRespected ==
    [][\A s \in Slots :
          (search_memory_embedded(s) /\ inflight[s].n_results # Undefined) =>
              Len(resp'.body.results) <=
                  (IF inflight[s].n_results.n > 0 THEN inflight[s].n_results.n ELSE 0)]_vars

\* C8: the similarity scores of the results of a search_memory response never
\* increase from one result to the next.
C8_ResultsOrdered ==
    (resp.tool = "search_memory" /\ ~resp.isError) =>
        \A i, j \in 1..Len(resp.body.results) :
            i < j => resp.body.results[i].similarity >= resp.body.results[j].similarity

\* A search has answered two results of different scores, the better one first,
\* though its row comes later in the table.
C8_Witness ==
    /\ resp.tool = "search_memory" /\ ~resp.isError
    /\ Len(resp.body.results) >= 2
    /\ resp.body.results[1].similarity > resp.body.results[2].similarity
    /\ PositionOf(memories, resp.body.results[2].id) > 0
    /\ PositionOf(memories, resp.body.results[1].id) >
           PositionOf(memories, resp.body.results[2].id)

\* C9: on the rows a search has loaded, with its query and n_results, a higher
\* threshold never gives more results than the search returned, and a lower
\* one never fewer.
C9_ThresholdMonotone ==
    [][\A s \in Slots : search_memory_embedded(s) =>
          LET r == inflight[s]
              n == Default(r.n_results, Num(DefaultNResults)).n
              t == Default(r.threshold, Num(DefaultThreshold)).n
              Count(th) == Len(SearchResults(r.allMemories,
                                   generateEmbedding(r.query), n, th))
              returned == Len(resp'.body.results)
          IN  /\ returned = Count(t)
              /\ \A other \in Thresholds :
                    /\ t <= other => Count(other) <= returned
                    /\ other <= t => returned <= Count(other)]_vars

\* A search has answered fewer results than the rows it would give under
\* threshold 0: its threshold cut some off.
C9_Witness ==
    /\ resp.tool = "search_memory" /\ ~resp.isError
    /\ Len(resp.body.results) >= 1
    /\ Len(memories) = 3
    /\ Len(resp.body.results) <
           Len(SearchResults(memories, generateEmbedding(resp.body.query),
                             DefaultNResults, 0))

\* C10: search_memory on an empty table answers at once success:true with no
\* results and the "No memories stored yet" message; it requests no embedding,
\* so no failure of the provider can reach it.
C10_EmptyStoreSearch ==
    [][\A query \in SearchQueries, n_results \in NResultsArgs,
          threshold \in ThresholdArgs :
          (search_memory(query, n_results, threshold) /\ Len(memories) = 0) =>
              /\ resp' = Response("search_memory",
                            [success |-> TRUE, query |-> query, results |-> <<>>,
                             message |-> "No memories stored yet"])
              /\ ~resp'.isError
              /\ inflight' = inflight]_vars

\* The empty-store answer has been given.
C10_Witness ==
    /\ resp.tool = "search_memory"
    /\ resp.body.success /\ ~resp.isError
    /\ resp.body.results = <<>>
    /\ MessageOf(resp) = "No memories stored yet"
    /\ Len(memories) = 0

\* A response is well formed: its body carries a boolean success flag, and an
\* isError response carries success:false and the message of the fault.
WellFormed(r) ==
    /\ "success" \in DOMAIN r.body
    /\ r.body.success \in BOOLEAN
    /\ r.isError \in BOOLEAN
    /\ r.isError => (~r.body.success /\ "error" \in DOMAIN r.body /\ r.body.error # "")

\* The response of the catch to a fault with the message.
IsFaultResponse(r, tool, message) ==
    /\ r.tool = tool /\ r.isError
    /\ r.body = [success |-> FALSE, error |-> message]

\* The server takes a next request: a call without await is answered, an idle
\* slot accepts a call that awaits, and a suspended call is one that resumes.
ServesNext ==
    /\ ENABLED unknown_tool("x")
    /\ \A s \in Slots : inflight[s] = Idle => ENABLED save_memory(s, "x", "a", Undefined)
    /\ \A s \in Slots : inflight[s] # Idle =>
          inflight[s].tool \in {"save_memory", "search_memory"}

\* C11: every step of the server either suspends one call at its await, with
\* no response yet, or answers one call with one well-formed response carrying
\* a success flag; a call is answered once, by the response of its own tool.
\* An unknown tool name, a rejected embedding, a failing statement and a
\* value that cannot be bound each give success:false with the fault's
\* message and leave the tables as they were; after any response, a fault's
\* included, the server takes the next request.  (Every reachable state is the
\* first state of some step, so what the formula says of a step's first state
\* it says of every reachable state.)
C11_EveryCallAnswered ==
    [][/\ WellFormed(resp) /\ WellFormed(resp')
       /\ ServesNext
       /\ \A s \in Slots :
             /\ (inflight[s] = Idle /\ inflight'[s] # Idle) =>
                   (resp' = resp /\ memories' = memories)
             /\ inflight[s] # Idle =>
                   /\ inflight'[s] \in {inflight[s], Idle}
                   /\ inflight'[s] = Idle => resp'.tool = inflight[s].tool
             /\ embedding_rejected(s) =>
                   /\ IsFaultResponse(resp', inflight[s].tool, "embedding failed")
                   /\ inflight'[s] = Idle
             /\ storage_failed_embedded(s) =>
                   /\ IsFaultResponse(resp', "save_memory", "disk I/O error")
                   /\ inflight'[s] = Idle
       /\ \A name \in UnknownTools : unknown_tool(name) =>
             IsFaultResponse(resp', name, "Unknown tool: " \o name)
       /\ \A tool \in SyncTools : storage_failed(tool) =>
             IsFaultResponse(resp', tool, "disk I/O error")
       /\ resp'.isError => (memories' = memories /\ user_bio' = user_bio)]_vars

\* The catch has answered an unknown tool name while a memory is stored and
\* the biography exists, and no call is left suspended.
C11_Witness ==
    /\ \E name \in UnknownTools : IsFaultResponse(resp, name, "Unknown tool: " \o name)
    /\ Len(memories) = 1
    /\ user_bio # NoRow
    /\ \A s \in Slots : inflight[s] = Idle

\* C12: update_user_bio with a field name that is not one of the eight
\* biography fields answers a failure and changes no column of the record.
C12_UnknownFieldRejected ==
    [][\A field \in PatchFields \ BioFields : \A value \in PatchArgsOf(field) :
          update_user_bio(field, value) =>
              /\ ~resp'.body.success
              /\ user_bio' = user_bio]_vars

\* C13: once the record exists, no set_user_bio and no update_user_bio, under
\* any arguments, changes its created_at, and each that succeeds sets
\* updated_at to the clock's reading at the call.
C13_BioCreatedAtSetOnce ==
    [][/\ user_bio # NoRow =>
             /\ user_bio' # NoRow
             /\ user_bio'.created_at = user_bio.created_at
       /\ \A bioFields \in SmallBioArgs :
             (set_user_bio(bioFields) /\ resp'.body.success) =>
                 user_bio'.updated_at = clock
       /\ \A field \in PatchFields : \A value \in PatchArgsOf(field) :
             (update_user_bio(field, value) /\ resp'.body.success) =>
                 user_bio'.updated_at = clock]_vars

\* A value of the kind the field takes: a string for a scalar field, a list for
\* a sequence field.
Supplied(f, v) ==
    IF f \in ScalarFields THEN v.t = "string" ELSE v.t = "array"

\* The arguments {f: v} of set_user_bio.
OnlyField(f, v) == [g \in BioFields |-> IF g = f THEN v ELSE Undefined]

\* The step is set_user_bio({f: v}).  (The first three conjuncts follow from
\* the last; they spare its evaluation on the steps of other calls.)
SetsOnlyField(f, v) ==
    /\ resp'.tool = "set_user_bio"
    /\ user_bio' # NoRow
    /\ user_bio'[f] = (IF f \in ScalarFields
                       THEN processValue(v, FieldOf(user_bio, f))
                       ELSE processList(v, FieldOf(user_bio, f)))
    /\ set_user_bio(OnlyField(f, v))

\* C14 as stated: after a set_user_bio({f: v}) that supplies a string for a
\* scalar field (the string "null" and the empty string included) or a list
\* for a sequence field (the empty list included), get_user_bio reports the
\* field equal to the value supplied.
C14_SuppliedValuesReplace ==
    [][\A f \in BioFields : \A v \in ArgsOf(f) :
          (Supplied(f, v) /\ SetsOnlyField(f, v)) =>
              Reported(user_bio', f) = v]_vars

\* C14 as amended: the same for every supplied value other than the string
\* "null", which set_user_bio takes as a clear: the field is then reported null.
C14_SuppliedValuesReplaceButNull ==
    [][\A f \in BioFields : \A v \in ArgsOf(f) :
          (Supplied(f, v) /\ SetsOnlyField(f, v)) =>
              /\ resp'.body.success
              /\ Reported(user_bio', f) = (IF v = Str("null") THEN Null ELSE v)]_vars

\* get_user_bio has reported an empty string and an empty list as they were
\* supplied.
C14_Witness ==
    /\ resp.tool = "get_user_bio"
    /\ user_bio # NoRow
    /\ resp.body.bio.nombre = Str("")
    /\ resp.body.bio.tecnologias = Arr(<<>>)

\* The listing has one entry per row of the table, in non-increasing
\* updated_at.
ListsEveryRow(r, rows) ==
    /\ r.tool = "list_all_memories" /\ r.body.success /\ ~r.isError
    /\ r.body.count = Len(rows)
    /\ Len(r.body.memories) = Len(rows)
    /\ \A k \in 1..Len(rows) :
          Cardinality({i \in 1..Len(r.body.memories) :
                          r.body.memories[i].id = rows[k].id}) = 1
    /\ \A i, j \in 1..Len(r.body.memories) :
          i < j => r.body.memories[i].updated_at >= r.body.memories[j].updated_at

\* C15 as stated: list_all_memories returns one entry per stored row, in
\* non-increasing updated_at, and the memory saved or re-saved last (the one
\* whose save was the call answered before the listing) comes first.
C15_LatestSavedFirst ==
    [][list_all_memories =>
          /\ ListsEveryRow(resp', memories)
          /\ (resp.tool = "save_memory" /\ ~resp.isError) =>
                resp'.body.memories[1].id = resp.body.id]_vars

\* C15 as amended: one entry per stored row, in non-increasing updated_at; the
\* memory saved last comes first when its updated_at is later than that of
\* every other row, and every row of a later updated_at comes before every
\* row of an earlier one.
C15_ListedByUpdatedAt ==
    [][list_all_memories =>
          /\ ListsEveryRow(resp', memories)
          /\ (/\ resp.tool = "save_memory" /\ ~resp.isError
              /\ \A k \in 1..Len(memories) :
                    memories[k].id # resp.body.id =>
                        memories[k].updated_at <
                            SelectMemory(memories, resp.body.id).updated_at) =>
                resp'.body.memories[1].id = resp.body.id]_vars

\* The listing has put the row saved later, second in the table, first.
C15_Witness ==
    /\ resp.tool = "list_all_memories"
    /\ resp.body.count = 2
    /\ resp.body.memories[1].updated_at > resp.body.memories[2].updated_at
    /\ resp.body.memories[1].id = memories[2].id

\* A number brought into the range lo..hi.
Clamp(n, lo, hi) == IF n < lo THEN lo ELSE IF n > hi THEN hi ELSE n

\* C16: a search_memory called with n_results below 1 or with a threshold
\* outside 0..1 is answered with a failure, or exactly as the call with
\* n_results raised to 1 and the threshold brought into 0..1 is answered.
C16_ArgumentsValidated ==
    [][\A s \in Slots : search_memory_embedded(s) =>
          LET r == inflight[s]
              n == Default(r.n_results, Num(DefaultNResults)).n
              t == Default(r.threshold, Num(DefaultThreshold)).n
          IN  (n < 1 \/ t < 0 \/ t > 100) =>
                  \/ ~resp'.body.success
                  \/ resp'.body.results =
                        SearchResults(r.allMemories, generateEmbedding(r.query),
                                      Clamp(n, 1, n), Clamp(t, 0, 100))]_vars

\* C17: get_user_bio answers success:true, with bio:null exactly when the
\* table has no record; set_user_bio({}) without a record creates one whose
\* eight fields are null, which get_user_bio returns as a bio object with
\* eight null fields and the timestamps of its creation.
C17_NoneOrEmptyRecord ==
    [][/\ get_user_bio =>
             /\ resp'.body.success /\ ~resp'.isError
             /\ (resp'.body.bio = Null) <=> (user_bio = NoRow)
             /\ user_bio # NoRow =>
                   /\ resp'.body.bio.created_at = user_bio.created_at
                   /\ resp'.body.bio.updated_at = user_bio.updated_at
       /\ (set_user_bio(NoFields) /\ user_bio = NoRow) =>
             LET got == GetUserBioResponse(user_bio')
             IN  /\ resp'.body.success
                 /\ user_bio' # NoRow
                 /\ got.body.success /\ got.body.bio # Null
                 /\ \A f \in BioFields : got.body.bio[f] = Null
                 /\ got.body.bio.created_at = clock
                 /\ got.body.bio.updated_at = clock]_vars

\* get_user_bio has returned a record whose eight fields are all null.
C17_Witness ==
    /\ resp.tool = "get_user_bio"
    /\ resp.body.success
    /\ resp.body.bio # Null
    /\ \A f \in BioFields : resp.body.bio[f] = Null
    /\ user_bio # NoRow

\* C18: with save_memory requests of one id suspended together, in any order
\* of their resumption each completes with success:true, and leaves exactly
\* one row for the id, holding the text, the embedding and the metadata of
\* that one request, with the created_at of the first write; no id ever has
\* two rows.
C18_ConcurrentSavesAtomic ==
    [][/\ \A s \in ConcurrentSlots : save_memory_embedded(s) =>
             LET r == inflight[s]
                 before == SelectMemory(memories, r.id)
                 after == SelectMemory(memories', r.id)
             IN  /\ resp'.tool = "save_memory"
                 /\ resp'.body.success /\ ~resp'.isError
                 /\ Cardinality(RowsWithId(memories', r.id)) = 1
                 /\ after.text = r.text
                 /\ after.embedding = JSON_stringify(NumArr(generateEmbedding(r.text)))
                 /\ after.metadata = JSON_stringify(Default(r.metadata, Obj(<<>>)))
                 /\ after.created_at =
                       (IF before = NoRow THEN clock ELSE before.created_at)
                 /\ after.updated_at = clock
       /\ \A k, l \in 1..Len(memories') :
             memories'[k].id = memories'[l].id => k = l]_vars

\* One save of x has completed and written its row, while another save of x,
\* of another text and other metadata, is still suspended at its embedding.
C18_Witness ==
    /\ resp.tool = "save_memory" /\ resp.body.success
    /\ SelectMemory(memories, "x") # NoRow
    /\ \E s \in ConcurrentSlots :
          /\ inflight[s].tool = "save_memory"
          /\ inflight[s].id = "x"
          /\ inflight[s].text # SelectMemory(memories, "x").text
          /\ JSON_stringify(Default(inflight[s].metadata, Obj(<<>>))) #
                 SelectMemory(memories, "x").metadata

\* C19: the results of a search_memory are taken from the table as it is when
\* the query's embedding arrives: each result is a row the table then holds,
\* with the text it then has.
C19_SearchSeesCurrentStore ==
    [][\A s \in ConcurrentSlots : search_memory_embedded(s) =>
          \A i \in 1..Len(resp'.body.results) :
              LET result == resp'.body.results[i]
                  memory == SelectMemory(memories, result.id)
              IN  /\ memory # NoRow
                  /\ memory.text = result.text]_vars

\* C20: of the rows a search_memory has loaded, every result scores at least
\* the threshold, and a row that scores at least the threshold (one that
\* scores exactly the threshold included) is left out only when the results
\* number n_results or more and none of them scores lower than the row.
C20_ExactlyTopMatches ==
    [][\A s \in Slots : search_memory_embedded(s) =>
          LET r == inflight[s]
              n == Default(r.n_results, Num(DefaultNResults)).n
              t == Default(r.threshold, Num(DefaultThreshold)).n
              queryEmbedding == generateEmbedding(r.query)
              scored == [k \in 1..Len(r.allMemories) |->
                            Scored(r.allMemories[k], queryEmbedding)]
              results == resp'.body.results
          IN  /\ \A i \in 1..Len(results) :
                    /\ results[i].similarity >= t
                    /\ \E k \in 1..Len(scored) : scored[k] = results[i]
              /\ \A i, j \in 1..Len(results) : results[i].id = results[j].id => i = j
              /\ \A k \in 1..Len(scored) :
                    (/\ scored[k].similarity >= t
                     /\ \A i \in 1..Len(results) : results[i].id # scored[k].id) =>
                        /\ ~(Len(results) < n)
                        /\ \A i \in 1..Len(results) :
                              ~(results[i].similarity < scored[k].similarity)]_vars

\* A search has returned the rows of scores 0.8 and 0.6 and left out the row
\* of score 0, all three being stored.
C20_Witness ==
    /\ resp.tool = "search_memory" /\ ~resp.isError
    /\ Len(memories) = 3
    /\ Len(resp.body.results) = 2
    /\ resp.body.results[1].similarity = 80
    /\ resp.body.results[2].similarity = 60
    /\ \E k \in 1..Len(memories) : memories[k].text = "c"

\* C21: an update_user_bio of one of the eight fields that succeeds stores the
\* value in that field and the clock's reading in updated_at; the other seven
\* fields, created_at and every memory row are as they were.
C21_PatchChangesOneField ==
    [][\A field \in BioFields : \A value \in UpdateArgsOf(field) :
          (update_user_bio(field, value) /\ resp'.body.success) =>
              /\ user_bio # NoRow /\ user_bio' # NoRow
              /\ Reported(user_bio', field) = value
              /\ \A g \in BioFields \ {field} : user_bio'[g] = user_bio[g]
              /\ user_bio'.created_at = user_bio.created_at
              /\ user_bio'.updated_at = clock
              /\ memories' = memories]_vars

\* A patch has succeeded after the record's creation, in a later millisecond,
\* on a record that holds another field, with a memory stored.
C21_Witness ==
    /\ resp.tool = "update_user_bio" /\ resp.body.success
    /\ MessageOf(resp) = "Updated field: timezone"
    /\ user_bio # NoRow
    /\ user_bio.created_at < user_bio.updated_at
    /\ user_bio.timezone = Str("A")
    /\ user_bio.nombre = Str("A")
    /\ user_bio.mascotas # Null
    /\ Len(memories) = 1

\* C22: a save_memory whose embedding request fails answers a failure and
\* leaves the table as it was, a row of its id included; the request is over,
\* so nothing saves it later.  A save_memory that succeeds changes the row of
\* its id, adding it when there is none, and no other row.
C22_FailedSaveMutatesNothing ==
    [][\A s \in Slots :
          /\ (embedding_rejected(s) /\ inflight[s].tool = "save_memory") =>
                /\ resp'.tool = "save_memory"
                /\ resp'.isError /\ ~resp'.body.success
                /\ memories' = memories
                /\ inflight'[s] = Idle
          /\ save_memory_embedded(s) =>
                LET id == inflight[s].id
                IN  /\ resp'.body.success
                    /\ Cardinality(RowsWithId(memories', id)) = 1
                    /\ Len(memories') =
                          Len(memories) + (IF SelectMemory(memories, id) = NoRow
                                           THEN 1 ELSE 0)
                    /\ \A k \in 1..Len(memories) :
                          memories[k].id # id => memories'[k] = memories[k]]_vars

\* A save of x has failed at its embedding, in a later millisecond than the
\* save that wrote the row of x, and the row is as that save left it.
C22_Witness ==
    /\ resp.tool = "save_memory" /\ resp.isError
    /\ clock > 0
    /\ SelectMemory(memories, "x") # NoRow
    /\ SelectMemory(memories, "x").updated_at = 0
    /\ SelectMemory(memories, "y") # NoRow
    /\ \A s \in Slots : inflight[s] = Idle

\* C25: a delete_memory that succeeds leaves no row of the id, and a
\* save_memory of an id that has no row, one deleted before included, is
\* answered as a new save and writes a row whose created_at and updated_at
\* are both the clock's reading at that save.
C25_DeleteForgetsCreatedAt ==
    [][/\ \A id \in Ids : (delete_memory(id) /\ resp'.body.success) =>
             SelectMemory(memories', id) = NoRow
       /\ \A s \in Slots :
             (save_memory_embedded(s) /\ SelectMemory(memories, inflight[s].id) = NoRow) =>
                 LET after == SelectMemory(memories', inflight[s].id)
                 IN  /\ MessageOf(resp') = "Memory saved with ID: " \o inflight[s].id
                     /\ resp'.body.success
                     /\ after # NoRow
                     /\ after.created_at = clock
                     /\ after.updated_at = clock]_vars

\* x has been saved anew in a later millisecond than y, and stands after y in
\* the table: its row dates from that save.
C25_Witness ==
    /\ MessageOf(resp) = "Memory saved with ID: x"
    /\ Len(memories) = 2
    /\ memories[1].id = "y" /\ memories[1].created_at = 0
    /\ memories[2].id = "x" /\ memories[2].created_at = 1
    /\ memories[2].updated_at = 1

\* C23: the biography record comes into existence by a set_user_bio that
\* succeeds and by no other step; once it exists, every step (a set_user_bio,
\* an update_user_bio under any field and value, a memory operation, a fault)
\* leaves it in existence; and an update_user_bio that would give it another
\* identity than 1 is refused, the record unchanged.
C23_BioLifecycle ==
    [][/\ (user_bio = NoRow /\ user_bio' # NoRow) =>
             (resp'.tool = "set_user_bio" /\ resp'.body.success /\ ~resp'.isError)
       /\ user_bio # NoRow => user_bio' # NoRow
       /\ (user_bio # NoRow /\ update_user_bio("id", Num(2))) =>
             /\ ~resp'.body.success
             /\ user_bio' = user_bio]_vars

\* The record exists, its creation was followed by a refused change of its
\* identity, and no memory is stored.
C23_Witness ==
    /\ user_bio # NoRow
    /\ resp.tool = "update_user_bio" /\ resp.isError
    /\ resp.body.error = "CHECK constraint failed: id = 1"
    /\ Len(memories) = 0

\* A tool call is handled in the step: a call is taken up, resumed or answered.
HandlesToolCall ==
    \/ resp' # resp
    \/ inflight' # inflight
    \/ memories' # memories
    \/ user_bio' # user_bio

\* C24: a tool call is handled only once the embedder is loaded: the
\* transport is connected only with the embedder loaded.  When the loading
\* fails, the process closes the database and exits, with the transport never
\* connected and no tool call ever answered; an exited process handles nothing.
C24_StartupOrdering ==
    [][/\ HandlesToolCall =>
             (process.embedder = "loaded" /\ process.transport = "connected"
              /\ ~process.exited /\ process.db = "open")
       /\ process'.transport = "connected" => process'.embedder = "loaded"
       /\ initializeEmbedder_rejected =>
             /\ process'.exited /\ process'.db = "closed"
             /\ process'.transport = "none"
             /\ resp' = NoResp /\ memories' = <<>>
       /\ process.exited => (process' = process /\ ~HandlesToolCall)]_vars

\* A save has been answered by a process whose embedder was loaded before its
\* transport was connected.
C24_Witness ==
    /\ process = Running
    /\ resp.tool = "save_memory" /\ resp.body.success
    /\ Len(memories) = 1

====
